---- MODULE Spec2Model ----
(***************************************************************************)
(* Model of the VM-provisioning sample scripts.                            *)
(*                                                                         *)
(* Three variants of the same script are modelled:                         *)
(*   "current"  : src/unnamed/part_000 (begin...AndWait, then get)         *)
(*   "variant1" : src/index.ts lines 1-207 (createOrUpdate, generic        *)
(*                deleteResource that does not await the delete)           *)
(*   "variant2" : src/index.ts lines 209-463 (year in the suffix, fixed    *)
(*                VM name, only the VM is deleted)                         *)
(*                                                                         *)
(* Strings are TLC strings; "+" of TypeScript is \o.  The remote           *)
(* management API is the environment: every call is issued by the driver,  *)
(* settles later (success or failure) and the driver resumes only on the   *)
(* promise it awaits.                                                      *)
(***************************************************************************)
EXTENDS Integers, Sequences, FiniteSets, TLC

VARIABLES
  variant,        \* which script runs
  env,            \* process.env["AZURE_SUBSCRIPTION_ID"]: <<>> unset, <<s>> set to s
  now,            \* the wall clock read by new Date()
  status,         \* "running" | "exited" (process.exit) | "completed"
  exitCode,       \* process exit code, -1 while running
  pc,             \* position of the driver
  step,           \* index of the current driver step in Steps(variant)
  credential,     \* "none" | "pending" | "acquired" | "failed"
  clients,        \* TRUE once the management clients are constructed
  nameSuffix,     \* result of getNameSuffix(), "" before
  names,          \* resource names derived from nameSuffix
  calls,          \* every remote call issued, in issue order
  awaiting,       \* index in calls of the promise the driver awaits, 0 if none
  remote,         \* remote state: resource type -> sequence of resources
  locals,         \* resources returned by the create operations
  lists,          \* values returned by listVirtualMachines, in order
  log,            \* console output
  caught          \* TRUE once the top-level catch handler ran

vars == <<variant, env, now, status, exitCode, pc, step, credential, clients,
          nameSuffix, names, calls, awaiting, remote, locals, lists, log, caught>>

----------------------------------------------------------------------------
(* Bounds and input sets *)

MaxPriorVMs == 2

Variants == {"current", "variant1", "variant2"}

Types == {"vm", "nic", "ip", "vnet"}

EnvValues == {<<>>, <<"">>, <<"sub-0001">>}

Years   == {2019, 2026}
Months  == {1, 3, 10, 12}        \* calendar months
Days    == {7, 31}
Hours   == {9, 23}
Minutes == {5, 59}
Seconds == {1, 30}

Timestamps ==
  [year : Years, month : Months, day : Days,
   hours : Hours, minutes : Minutes, seconds : Seconds]

\* names of virtual machines that may exist before the run
OldVMNames == <<"MySampleVM", "vm0207090501", "oldvm">>

----------------------------------------------------------------------------
(* Date accessors *)

getFullYear(t) == t.year
getMonth(t)    == t.month - 1
getDate(t)     == t.day
getHours(t)    == t.hours
getMinutes(t)  == t.minutes
getSeconds(t)  == t.seconds

(* String helpers *)

RECURSIVE repeat(_, _)
repeat(s, n) == IF n <= 0 THEN "" ELSE s \o repeat(s, n - 1)

\* String.prototype.slice(-n)
sliceLast(s, n) ==
  IF Len(s) <= n THEN s ELSE SubSeq(s, Len(s) - n + 1, Len(s))

padNoZero(n, num) == ToString(num)

pad(n, num) ==
  LET padString == repeat("0", n)
  IN  sliceLast(padString \o ToString(num), n)

getNameSuffix(v, t) ==
  LET fields == pad(2, getMonth(t)) \o pad(2, getDate(t)) \o pad(2, getHours(t))
                \o pad(2, getMinutes(t)) \o pad(2, getSeconds(t))
  IN  IF v = "variant2" THEN ToString(getFullYear(t)) \o fields ELSE fields

----------------------------------------------------------------------------
(* Resources and the remote service *)

NoResource == [type |-> "", name |-> "", id |-> "", subnets |-> <<>>,
               subnet |-> "", publicIPAddress |-> "", nicId |-> ""]

NoParams == [subnets |-> <<>>, subnet |-> "", publicIPAddress |-> "", nicId |-> ""]

\* the resource the service stores for createOrUpdate(resourceGroup, name, params)
Resource(type, name, params) ==
  [type |-> type, name |-> name,
   id |-> "/samples/" \o type \o "/" \o name,
   subnets |-> params.subnets, subnet |-> params.subnet,
   publicIPAddress |-> params.publicIPAddress, nicId |-> params.nicId]

IndexOf(seq, name) ==
  IF \E i \in 1..Len(seq) : seq[i].name = name
  THEN CHOOSE i \in 1..Len(seq) : seq[i].name = name
  ELSE 0

Exists(r, type, name) == IndexOf(r[type], name) # 0

RemoteCreateOrUpdate(r, type, name, params) ==
  LET i == IndexOf(r[type], name)
      res == Resource(type, name, params)
  IN  IF i = 0
      THEN [r EXCEPT ![type] = Append(@, res)]
      ELSE [r EXCEPT ![type][i] = res]

RemoteGetFirst(r, type, name) == r[type][1]

RemoteGet(r, type, name) == r[type][IndexOf(r[type], name)]

RECURSIVE Without(_, _)
Without(seq, name) ==
  IF seq = <<>> THEN <<>>
  ELSE IF Head(seq).name = name THEN Without(Tail(seq), name)
  ELSE <<Head(seq)>> \o Without(Tail(seq), name)

RemoteDelete(r, type, name) == [r EXCEPT ![type] = Without(@, name)]

\* remote collections of virtual machines that can exist before the run
RECURSIVE PriorVMLists(_)
PriorVMLists(n) ==
  IF n = 0 THEN {<<>>}
  ELSE LET shorter == PriorVMLists(n - 1)
           ext == {q \in shorter \X (1..Len(OldVMNames)) :
                     /\ Len(q[1]) = n - 1
                     /\ IndexOf(q[1], OldVMNames[q[2]]) = 0}
       IN  shorter \cup
           {Append(q[1], Resource("vm", OldVMNames[q[2]], NoParams)) : q \in ext}

PriorRemotes ==
  {[vm |-> l, nic |-> <<>>, ip |-> <<>>, vnet |-> <<>>] : l \in PriorVMLists(MaxPriorVMs)}

----------------------------------------------------------------------------
(* The driver *)

StepsNicFirst(v) ==
  <<[op |-> "list", type |-> "vm"],
    [op |-> "create", type |-> "vnet"],
    [op |-> "create", type |-> "ip"],
    [op |-> "create", type |-> "nic"],
    [op |-> "create", type |-> "vm"],
    [op |-> "list", type |-> "vm"],
    [op |-> "delete", type |-> "nic"],
    [op |-> "delete", type |-> "vm"],
    [op |-> "delete", type |-> "ip"],
    [op |-> "delete", type |-> "vnet"]>>

\* the awaited operations of the async main function, in program order
Steps(v) ==
  LET common == <<[op |-> "list", type |-> "vm"],
                  [op |-> "create", type |-> "vnet"],
                  [op |-> "create", type |-> "ip"],
                  [op |-> "create", type |-> "nic"],
                  [op |-> "create", type |-> "vm"],
                  [op |-> "list", type |-> "vm"],
                  [op |-> "delete", type |-> "vm"]>>
  IN  IF v = "variant2" THEN common
      ELSE common \o <<[op |-> "delete", type |-> "nic"],
                       [op |-> "delete", type |-> "ip"],
                       [op |-> "delete", type |-> "vnet"]>>

NoNames == [vm |-> "", nic |-> "", ip |-> "", vnet |-> ""]

ResourceNames(v, suffix) ==
  [vm   |-> IF v = "variant2" THEN "MySampleVM" ELSE "vm" \o suffix,
   vnet |-> "network" \o suffix,
   ip   |-> "ip" \o suffix,
   nic  |-> "nic" \o suffix]

NoLocals == [vm |-> NoResource, nic |-> NoResource, ip |-> NoResource, vnet |-> NoResource]

CreateParamsOwnRefs(type, nm, loc) ==
  CASE type = "vnet" -> [NoParams EXCEPT !.subnets = <<"sub" \o nm>>]
    [] type = "ip"   -> NoParams
    [] type = "nic"  -> [NoParams EXCEPT !.subnet = "sub" \o nm,
                                        !.publicIPAddress = loc.ip.id]
    [] type = "vm"   -> [NoParams EXCEPT !.nicId = loc.ip.id]

\* the parameters object each create step passes to createOrUpdate
CreateParams(type, nm, loc) ==
  CASE type = "vnet" -> [NoParams EXCEPT !.subnets = <<"sub" \o nm>>]
    [] type = "ip"   -> NoParams
    [] type = "nic"  -> [NoParams EXCEPT
                           !.subnet = IF loc.vnet.subnets = <<>> THEN ""
                                      ELSE loc.vnet.subnets[1],
                           !.publicIPAddress = loc.ip.id]
    [] type = "vm"   -> [NoParams EXCEPT !.nicId = loc.nic.id]

resourceGroupName == "samples"

Call(verb, type, name, params, k) ==
  [verb |-> verb, resourceGroup |-> resourceGroupName, type |-> type,
   name |-> name, params |-> params,
   step |-> k, state |-> "pending", result |-> <<>>]

Line(kind, text, n) == [kind |-> kind, text |-> text, n |-> n]

isFalsyOnlyUndefined(e) == e = <<>>

\* !subscriptionId
isFalsy(e) == e = <<>> \/ e[1] = ""

awaitNothing(i) == TRUE

\* an await resumes only once the awaited promise is settled; the promise of
\* an async function that returns a promise follows that promise
awaitSettled(i) == calls[i].state # "pending"

rejected(i) == calls[i].state = "failed"

resultOf(i) == IF calls[i].result = <<>> THEN NoResource ELSE calls[i].result[1]

afterRejectionContinue(k) == [pc |-> "op", step |-> k + 1]

afterRejectionRetry(k) ==
  IF Cardinality({i \in 1..Len(calls) : calls[i].step = k}) < 3
  THEN [pc |-> "op", step |-> k]
  ELSE [pc |-> "catch", step |-> k]

\* a rejected await throws into the try/catch of the main function
afterRejection(k) == [pc |-> "catch", step |-> k]

Pending == {i \in 1..Len(calls) : calls[i].state = "pending"}

Init ==
  /\ variant \in Variants
  /\ env \in EnvValues
  /\ now \in Timestamps
  /\ remote \in PriorRemotes
  /\ status = "running"
  /\ exitCode = -1
  /\ pc = "getSubscriptionId"
  /\ step = 0
  /\ credential = "none"
  /\ clients = FALSE
  /\ nameSuffix = ""
  /\ names = NoNames
  /\ calls = <<>>
  /\ awaiting = 0
  /\ locals = NoLocals
  /\ lists = <<>>
  /\ log = <<>>
  /\ caught = FALSE

getSubscriptionId ==
  /\ status = "running"
  /\ pc = "getSubscriptionId"
  /\ IF isFalsy(env)
     THEN /\ log' = Append(log, Line("env-error", "", 0))
          /\ status' = "exited"
          /\ exitCode' = 1
          /\ pc' = "exit"
     ELSE /\ pc' = "getNameSuffix"
          /\ UNCHANGED <<log, status, exitCode>>
  /\ UNCHANGED <<variant, env, now, step, credential, clients, nameSuffix, names,
                 calls, awaiting, remote, locals, lists, caught>>

deriveNames ==
  /\ status = "running"
  /\ pc = "getNameSuffix"
  /\ nameSuffix' = getNameSuffix(variant, now)
  /\ names' = ResourceNames(variant, nameSuffix')
  /\ pc' = "getAzureClients"
  /\ UNCHANGED <<variant, env, now, status, exitCode, step, credential, clients,
                 calls, awaiting, remote, locals, lists, log, caught>>

getAzureClients ==
  /\ status = "running"
  /\ pc = "getAzureClients"
  /\ IF variant = "current"
     THEN /\ credential' = "acquired"
          /\ clients' = TRUE
          /\ pc' = "op"
          /\ step' = 1
     ELSE /\ credential' = "pending"
          /\ pc' = "awaitLogin"
          /\ UNCHANGED <<clients, step>>
  /\ UNCHANGED <<variant, env, now, status, exitCode, nameSuffix, names,
                 calls, awaiting, remote, locals, lists, log, caught>>

interactiveLoginSettles ==
  /\ credential = "pending"
  /\ credential' \in {"acquired", "failed"}
  /\ UNCHANGED <<variant, env, now, status, exitCode, pc, step, clients, nameSuffix,
                 names, calls, awaiting, remote, locals, lists, log, caught>>

getAzureClientsResume ==
  /\ status = "running"
  /\ pc = "awaitLogin"
  /\ credential # "pending"
  /\ IF credential = "failed"
     THEN /\ pc' = "catch"
          /\ UNCHANGED <<clients, step>>
     ELSE /\ clients' = TRUE
          /\ pc' = "op"
          /\ step' = 1
  /\ UNCHANGED <<variant, env, now, status, exitCode, credential, nameSuffix, names,
                 calls, awaiting, remote, locals, lists, log, caught>>

----------------------------------------------------------------------------
(* Resource operations: each is split at its awaits *)

CurrentStep == Steps(variant)[step]

AtOp(op) ==
  /\ status = "running"
  /\ pc = "op"
  /\ step \in 1..Len(Steps(variant))
  /\ CurrentStep.op = op

Resuming(at) ==
  /\ status = "running"
  /\ pc = at
  /\ awaiting # 0
  /\ awaitSettled(awaiting)

\* leave the operation with an exception: control goes where afterRejection says
Throw ==
  /\ pc' = afterRejection(step).pc
  /\ step' = afterRejection(step).step
  /\ awaiting' = 0

\* leave the operation normally: the driver goes on with its next statement
Return ==
  /\ pc' = "op"
  /\ step' = step + 1
  /\ awaiting' = 0

Issue(call) ==
  /\ calls' = Append(calls, call)
  /\ awaiting' = Len(calls) + 1

RECURSIVE EntryLines(_, _)
\* one console line per entry, numbered from first
EntryLines(entries, first) ==
  IF entries = <<>> THEN <<>>
  ELSE <<Line("entry", Head(entries).name, first)>> \o EntryLines(Tail(entries), first + 1)

listLinesFromOne(v, entries, failed) ==
  <<Line("found", "", Len(entries))>> \o EntryLines(entries, 1)

\* what listVirtualMachines prints for the entries the service yielded
listLines(v, entries, failed) ==
  IF v = "current"
  THEN EntryLines(entries, 0) \o
       (IF failed THEN <<>> ELSE <<Line("found", "", Len(entries))>>)
  ELSE IF failed THEN <<>>
       ELSE <<Line("found", "", Len(entries))>> \o EntryLines(entries, 0)

listVirtualMachines ==
  /\ AtOp("list")
  /\ log' = Append(log, Line("listing", "", 0))
  /\ Issue(Call("list", "vm", "", NoParams, step))
  /\ pc' = "awaitList"
  /\ UNCHANGED <<variant, env, now, status, exitCode, step, credential, clients,
                 nameSuffix, names, remote, locals, lists, caught>>

listVirtualMachinesResume ==
  /\ Resuming("awaitList")
  /\ log' = log \o listLines(variant, calls[awaiting].result, rejected(awaiting))
  /\ IF rejected(awaiting)
     THEN /\ Throw
          /\ UNCHANGED lists
     ELSE /\ Return
          /\ lists' = Append(lists, calls[awaiting].result)
  /\ UNCHANGED <<variant, env, now, status, exitCode, credential, clients,
                 nameSuffix, names, calls, remote, locals, caught>>

readsBackAlways(v) == TRUE

\* the create operations of the current script discard the result of
\* beginCreateOrUpdateAndWait and read the resource back with get
readsBack(v) == v = "current"

createResource ==
  /\ AtOp("create")
  /\ LET type == CurrentStep.type
     IN  /\ log' = Append(log, Line("creating", names[type], 0))
         /\ Issue(Call("createOrUpdate", type, names[type],
                       CreateParams(type, names[type], locals), step))
  /\ pc' = "awaitCreate"
  /\ UNCHANGED <<variant, env, now, status, exitCode, step, credential, clients,
                 nameSuffix, names, remote, locals, lists, caught>>

createResourceResume ==
  /\ Resuming("awaitCreate")
  /\ LET type == CurrentStep.type
     IN  IF rejected(awaiting)
         THEN /\ Throw
              /\ UNCHANGED <<calls, locals, log>>
         ELSE IF readsBack(variant)
         THEN /\ Issue(Call("get", type, names[type], NoParams, step))
              /\ pc' = "awaitGet"
              /\ UNCHANGED <<step, locals, log>>
         ELSE /\ Return
              /\ locals' = [locals EXCEPT ![type] = resultOf(awaiting)]
              /\ log' = Append(log, Line("created", resultOf(awaiting).name, 0))
              /\ UNCHANGED calls
  /\ UNCHANGED <<variant, env, now, status, exitCode, credential, clients,
                 nameSuffix, names, remote, lists, caught>>

createResourceGetResume ==
  /\ Resuming("awaitGet")
  /\ LET type == CurrentStep.type
     IN  IF rejected(awaiting)
         THEN /\ Throw
              /\ UNCHANGED <<locals, log>>
         ELSE /\ Return
              /\ locals' = [locals EXCEPT ![type] = resultOf(awaiting)]
              /\ log' = Append(log, Line("created", resultOf(awaiting).name, 0))
  /\ UNCHANGED <<variant, env, now, status, exitCode, credential, clients,
                 nameSuffix, names, calls, remote, lists, caught>>

\* deleteResource of variant 1 prints its success line right after starting
\* the delete, before the returned promise is settled
logsBeforeSettled(v) == v = "variant1"

deleteResource ==
  /\ AtOp("delete")
  /\ LET type == CurrentStep.type
     IN  /\ Issue(Call("delete", type, names[type], NoParams, step))
         /\ log' = log \o <<Line("deleting", names[type], 0)>> \o
                   (IF logsBeforeSettled(variant)
                    THEN <<Line("deleted", names[type], 0)>> ELSE <<>>)
  /\ pc' = "awaitDelete"
  /\ UNCHANGED <<variant, env, now, status, exitCode, step, credential, clients,
                 nameSuffix, names, remote, locals, lists, caught>>

deleteResourceResume ==
  /\ Resuming("awaitDelete")
  /\ LET type == CurrentStep.type
     IN  IF rejected(awaiting)
         THEN /\ Throw
              /\ UNCHANGED log
         ELSE /\ Return
              /\ log' = IF logsBeforeSettled(variant) THEN log
                        ELSE Append(log, Line("deleted", names[type], 0))
  /\ UNCHANGED <<variant, env, now, status, exitCode, credential, clients,
                 nameSuffix, names, calls, remote, locals, lists, caught>>

mainReturns ==
  /\ status = "running"
  /\ pc = "op"
  /\ step = Len(Steps(variant)) + 1
  /\ status' = "completed"
  /\ exitCode' = 0
  /\ pc' = "end"
  /\ UNCHANGED <<variant, env, now, step, credential, clients, nameSuffix, names,
                 calls, awaiting, remote, locals, lists, log, caught>>

catchFailsProcessAlways(v) == TRUE

\* the catch handlers only print the error: none rethrows, sets
\* process.exitCode or calls process.exit
catchFailsProcess(v) == FALSE

mainCatch ==
  /\ status = "running"
  /\ pc = "catch"
  /\ log' = Append(log, Line("error", "", 0))
  /\ caught' = TRUE
  /\ status' = "completed"
  /\ exitCode' = IF catchFailsProcess(variant) THEN 1 ELSE 0
  /\ pc' = "end"
  /\ UNCHANGED <<variant, env, now, step, credential, clients, nameSuffix, names,
                 calls, awaiting, remote, locals, lists>>

----------------------------------------------------------------------------
(* The remote service settles a pending call *)

Settle(i, ok, result) ==
  calls' = [calls EXCEPT ![i].state = IF ok THEN "ok" ELSE "failed",
                         ![i].result = result]

remoteSucceeds ==
  /\ \E i \in Pending :
       LET c == calls[i]
       IN  CASE c.verb = "list" ->
                  /\ Settle(i, TRUE, remote.vm)
                  /\ UNCHANGED remote
             [] c.verb = "createOrUpdate" ->
                  /\ remote' = RemoteCreateOrUpdate(remote, c.type, c.name, c.params)
                  /\ Settle(i, TRUE, <<Resource(c.type, c.name, c.params)>>)
             [] c.verb = "get" ->
                  /\ Exists(remote, c.type, c.name)
                  /\ Settle(i, TRUE, <<RemoteGet(remote, c.type, c.name)>>)
                  /\ UNCHANGED remote
             [] c.verb = "delete" ->
                  /\ remote' = RemoteDelete(remote, c.type, c.name)
                  /\ Settle(i, TRUE, <<>>)
  /\ UNCHANGED <<variant, env, now, status, exitCode, pc, step, credential, clients,
                 nameSuffix, names, awaiting, locals, lists, log, caught>>

\* a failed call changes nothing remotely; the paged listing of the current
\* script can fail after it has yielded some of the entries
remoteFails ==
  /\ \E i \in Pending :
       LET c == calls[i]
       IN  IF c.verb = "list" /\ variant = "current"
           THEN \E k \in 0..Len(remote.vm) : Settle(i, FALSE, SubSeq(remote.vm, 1, k))
           ELSE Settle(i, FALSE, <<>>)
  /\ UNCHANGED <<variant, env, now, status, exitCode, pc, step, credential, clients,
                 nameSuffix, names, awaiting, remote, locals, lists, log, caught>>

Next ==
  \/ getSubscriptionId
  \/ deriveNames
  \/ getAzureClients
  \/ interactiveLoginSettles
  \/ getAzureClientsResume
  \/ listVirtualMachines
  \/ listVirtualMachinesResume
  \/ createResource
  \/ createResourceResume
  \/ createResourceGetResume
  \/ deleteResource
  \/ deleteResourceResume
  \/ mainReturns
  \/ mainCatch
  \/ remoteSucceeds
  \/ remoteFails

Spec == Init /\ [][Next]_vars

\* the steps of the script itself: a continuation that can run does run
DriverStep ==
  \/ getSubscriptionId
  \/ deriveNames
  \/ getAzureClients
  \/ getAzureClientsResume
  \/ listVirtualMachines
  \/ listVirtualMachinesResume
  \/ createResource
  \/ createResourceResume
  \/ createResourceGetResume
  \/ deleteResource
  \/ deleteResourceResume
  \/ mainReturns
  \/ mainCatch

\* the steps of the environment: a pending login or remote call settles
RemoteSettles ==
  \/ interactiveLoginSettles
  \/ remoteSucceeds
  \/ remoteFails

\* runs in which every login and every remote call eventually completes
FairSpec == Spec /\ WF_vars(DriverStep) /\ WF_vars(RemoteSettles)

TypeOK ==
  /\ status \in {"running", "exited", "completed"}
  /\ exitCode \in {-1, 0, 1}
  /\ awaiting \in 0..Len(calls)

----------------------------------------------------------------------------
(* Properties *)

RECURSIVE DeleteOrder(_)
\* the resource types of the delete calls, in issue order
DeleteOrder(cs) ==
  IF cs = <<>> THEN <<>>
  ELSE (IF Head(cs).verb = "delete" THEN <<Head(cs).type>> ELSE <<>>)
       \o DeleteOrder(Tail(cs))

ReverseDependencyOrder == <<"vm", "nic", "ip", "vnet">>

IsPrefix(a, b) == Len(a) <= Len(b) /\ a = SubSeq(b, 1, Len(a))

FailureFree == status = "completed" /\ ~caught

\* C1: the delete calls issued so far are always an initial part of
\* VM, NIC, Public IP, VNet, and a failure-free run of a full-teardown
\* variant has issued all four, in that order.
C1_DeleteOrder ==
  /\ IsPrefix(DeleteOrder(calls), ReverseDependencyOrder)
  /\ (FailureFree /\ variant # "variant2")
       => DeleteOrder(calls) = ReverseDependencyOrder

C1_Witness ==
  /\ FailureFree
  /\ variant = "variant1"
  /\ DeleteOrder(calls) = ReverseDependencyOrder

\* C2: with AZURE_SUBSCRIPTION_ID unset or empty no credential is acquired,
\* no client is constructed and no remote call is issued, and once
\* getSubscriptionId has run the process has exited with code 1.
C2_NoSubscriptionNoCalls ==
  (env = <<>> \/ env = <<"">>)
    => /\ credential = "none"
       /\ ~clients
       /\ calls = <<>>
       /\ pc # "getSubscriptionId" => (status = "exited" /\ exitCode = 1)

C2_Witness ==
  /\ env = <<>>
  /\ status = "exited"
  /\ exitCode = 1
  /\ calls = <<>>

FailedAt(type) ==
  \E i \in 1..Len(calls) :
    /\ calls[i].state = "failed"
    /\ calls[i].type = type
    /\ calls[i].verb \in {"createOrUpdate", "get"}

\* C3: a failed remote call is the last call of the run (a failed login
\* leaves the run without any call); when the network-interface step failed,
\* no VM create and no delete was issued and the virtual network and public
\* IP of the run still exist remotely at the end.
C3_FirstFailureAborts ==
  /\ \A i \in 1..Len(calls) : calls[i].state = "failed" => i = Len(calls)
  /\ credential = "failed" => calls = <<>>
  /\ FailedAt("nic")
       => /\ \A i \in 1..Len(calls) :
                /\ ~(calls[i].verb = "createOrUpdate" /\ calls[i].type = "vm")
                /\ calls[i].verb # "delete"
          /\ Exists(remote, "vnet", names.vnet)
          /\ Exists(remote, "ip", names.ip)

C3_Witness ==
  /\ status = "completed"
  /\ caught
  /\ FailedAt("nic")

\* C4: at most one remote call is in flight in every state.
C4_OneCallInFlight == Cardinality(Pending) <= 1

C4_Witness ==
  /\ variant = "variant1"
  /\ \E i \in Pending : calls[i].verb = "delete" /\ calls[i].type = "nic"
  /\ \E p \in 1..Len(log) : log[p].kind = "deleted" /\ log[p].text = names.nic

twoDigits(k) == IF k < 10 THEN "0" \o ToString(k) ELSE ToString(k)

\* the suffix the calendar fields of the timestamp call for
CalendarSuffix(v, t) ==
  (IF v = "variant2" THEN ToString(t.year) ELSE "")
  \o twoDigits(t.month) \o twoDigits(t.day) \o twoDigits(t.hours)
  \o twoDigits(t.minutes) \o twoDigits(t.seconds)

\* C5: the name suffix is the timestamp's month, day, hour, minute and second,
\* each as two digits (after the year in the year variant): 7 March 09:05:01
\* gives "0307090501".
C5_SuffixCarriesTimestamp ==
  nameSuffix # "" => nameSuffix = CalendarSuffix(variant, now)

Digits == {"0", "1", "2", "3", "4", "5", "6", "7", "8", "9"}

IsDigits(s) == \A i \in 1..Len(s) : SubSeq(s, i, i) \in Digits

SuffixComputed == pc \notin {"getSubscriptionId", "getNameSuffix", "exit"}

\* C6 as stated: the name suffix is digits only, 12 characters long in the
\* variant with the year and 10 characters long in the others.
C6_TwelveWithYear ==
  SuffixComputed
    => /\ IsDigits(nameSuffix)
       /\ Len(nameSuffix) = IF variant = "variant2" THEN 12 ELSE 10

\* C6 (amended): the name suffix is digits only, 10 characters long in the
\* variants without the year and 14 characters long (the 4-digit year, then
\* five 2-digit fields) in the variant with the year.
C6_FixedWidthDigits ==
  SuffixComputed
    => /\ IsDigits(nameSuffix)
       /\ Len(nameSuffix) = IF variant = "variant2" THEN 14 ELSE 10

C6_Witness ==
  /\ SuffixComputed
  /\ variant = "variant2"
  /\ now.day < 10 /\ now.minutes < 10 /\ now.month = 10
  /\ Len(nameSuffix) = 14

\* C7: the resource a create operation returns is named as the name argument.
C7_ReturnedNameIsArgument ==
  \A t \in Types : locals[t] # NoResource => locals[t].name = names[t]

C7_Witness ==
  /\ variant = "current"
  /\ locals.vm # NoResource
  /\ locals.vm.name = names.vm
  /\ Len(remote.vm) > 1
  /\ remote.vm[1].name # names.vm

RECURSIVE ListRun(_)
\* the lines a listing printed: the leading "entry" and "found" lines of l
ListRun(l) ==
  IF l = <<>> \/ Head(l).kind \notin {"entry", "found"} THEN <<>>
  ELSE <<Head(l)>> \o ListRun(Tail(l))

ListingPositions == {p \in 1..Len(log) : log[p].kind = "listing"}

NthListing(j) ==
  CHOOSE p \in ListingPositions :
    Cardinality({q \in ListingPositions : q <= p}) = j

LinesOfList(j) == ListRun(SubSeq(log, NthListing(j) + 1, Len(log)))

OfKind(l, kind) == SelectSeq(l, LAMBDA x : x.kind = kind)

ListCallsReturned ==
  {i \in 1..Len(calls) :
     calls[i].verb = "list" /\ calls[i].state = "ok" /\ i # awaiting}

SettledOk(verb, type) ==
  \E i \in 1..Len(calls) :
    calls[i].verb = verb /\ calls[i].type = type /\ calls[i].state = "ok"

\* C8: every listing the service completed is returned (none throws, also
\* the empty one); the returned sequence is the remote collection in service
\* order, and the console shows one line per entry, numbered 0..n-1 in that
\* order, and one count line with n.
C8_ListReturnsCollection ==
  /\ Len(lists) = Cardinality(ListCallsReturned)
  /\ (Len(lists) = 1 /\ ~SettledOk("createOrUpdate", "vm")) => lists[1] = remote.vm
  /\ (Len(lists) = 2 /\ ~SettledOk("delete", "vm")) => lists[2] = remote.vm
  /\ \A j \in 1..Len(lists) :
       LET entries == OfKind(LinesOfList(j), "entry")
           counts  == OfKind(LinesOfList(j), "found")
       IN  /\ Len(entries) = Len(lists[j])
           /\ \A i \in 1..Len(entries) :
                /\ entries[i].n = i - 1
                /\ entries[i].text = lists[j][i].name
           /\ counts = <<Line("found", "", Len(lists[j]))>>

C8_Witness ==
  /\ Len(lists) = 2
  /\ lists[1] = <<>>
  /\ OfKind(LinesOfList(1), "found") = <<Line("found", "", 0)>>
  /\ Len(lists[2]) = 1

\* C9: a "deleted successfully" line for a resource is on the console only
\* if the remote delete of that resource has completed successfully.
C9_DeletedLoggedAfterDelete ==
  \A p \in 1..Len(log) :
    log[p].kind = "deleted"
      => \E i \in 1..Len(calls) :
           /\ calls[i].verb = "delete"
           /\ calls[i].name = log[p].text
           /\ calls[i].state = "ok"

CallsOfStep(k) == {i \in 1..Len(calls) : calls[i].step = k}

\* the steps whose operation has returned normally
ReturnedSteps == {k \in 1..Len(Steps(variant)) : k < step}

\* C10 as stated: every operation that returned issued exactly one remote
\* call, and a failure-free run issued one call per driver step.
C10_OneCallPerOperation ==
  /\ \A k \in ReturnedSteps : Cardinality(CallsOfStep(k)) = 1
  /\ FailureFree => Len(calls) = Len(Steps(variant))

CreateSteps == {k \in 1..Len(Steps(variant)) : Steps(variant)[k].op = "create"}

\* C10 (amended): a list or delete operation that returned issued exactly
\* one remote call; a create operation that returned issued exactly one
\* create-or-update call, followed in the current script by exactly one get
\* call for the same resource; a failure-free run issued one call per driver
\* step plus, in the current script, one get per create step.
C10_CallsPerOperation ==
  /\ \A k \in ReturnedSteps :
       LET op == Steps(variant)[k].op
           cs == CallsOfStep(k)
           first == CHOOSE i \in cs : \A j \in cs : i <= j
       IN  IF op = "create" /\ variant = "current"
           THEN /\ Cardinality(cs) = 2
                /\ calls[first].verb = "createOrUpdate"
                /\ calls[first + 1].verb = "get"
                /\ calls[first + 1].step = k
                /\ calls[first + 1].name = calls[first].name
                /\ calls[first + 1].type = calls[first].type
           ELSE /\ Cardinality(cs) = 1
                /\ calls[first].verb =
                     (IF op = "create" THEN "createOrUpdate" ELSE op)
  /\ FailureFree
       => Len(calls) = Len(Steps(variant))
                         + (IF variant = "current" THEN Cardinality(CreateSteps) ELSE 0)

C10_Witness ==
  /\ FailureFree
  /\ variant = "current"
  /\ Len(calls) = Len(Steps(variant)) + Cardinality(CreateSteps)
  /\ Cardinality(CallsOfStep(2)) = 2

\* the create step of a resource type returned before call i was issued
CreateReturnedBefore(type, i) ==
  /\ locals[type] # NoResource
  /\ \E j \in 1..(i - 1) :
       /\ calls[j].verb = "createOrUpdate"
       /\ calls[j].type = type
       /\ calls[j].state = "ok"
       /\ variant = "current"
            => \E g \in (j + 1)..(i - 1) :
                 /\ calls[g].verb = "get"
                 /\ calls[g].type = type
                 /\ calls[g].state = "ok"

\* C11: a network-interface create call is issued only after the
\* virtual-network and public-IP create steps returned, and carries the first
\* subnet of the returned virtual network and the returned public IP; a VM
\* create call is issued only after the network-interface create step
\* returned, and carries the identifier of the returned network interface.
C11_DependencyInputs ==
  \A i \in 1..Len(calls) :
    calls[i].verb = "createOrUpdate"
      => /\ calls[i].type = "nic"
              => /\ CreateReturnedBefore("vnet", i)
                 /\ CreateReturnedBefore("ip", i)
                 /\ locals.vnet.subnets # <<>>
                 /\ calls[i].params.subnet = locals.vnet.subnets[1]
                 /\ calls[i].params.publicIPAddress = locals.ip.id
                 /\ locals.vnet.name = names.vnet
                 /\ locals.ip.name = names.ip
         /\ calls[i].type = "vm"
              => /\ CreateReturnedBefore("nic", i)
                 /\ calls[i].params.nicId = locals.nic.id
                 /\ locals.nic.name = names.nic

C11_Witness ==
  /\ variant = "current"
  /\ \E i \in 1..Len(calls) :
       /\ calls[i].verb = "createOrUpdate"
       /\ calls[i].type = "vm"
       /\ calls[i].params.nicId = locals.nic.id
       /\ locals.nic.subnet = locals.vnet.subnets[1]
       /\ locals.nic.publicIPAddress = locals.ip.id

\* C12: a process that has ended has exit code 1 exactly when
\* AZURE_SUBSCRIPTION_ID was unset or empty, and exit code 0 otherwise, also
\* when the top-level handler caught the error of a failed call.
C12_ExitCode ==
  status # "running"
    => /\ exitCode = 1 <=> (env = <<>> \/ env = <<"">>)
       /\ exitCode \in {0, 1}
       /\ caught => exitCode = 0

C12_Witness ==
  /\ status = "completed"
  /\ caught
  /\ exitCode = 0
  /\ \E i \in 1..Len(calls) : calls[i].state = "failed" /\ calls[i].verb = "delete"

\* every delete call follows a successful create call for the same resource
\* group, type and name
DeletesTargetCreated ==
  \A i \in 1..Len(calls) :
    calls[i].verb = "delete"
      => \E j \in 1..(i - 1) :
           /\ calls[j].verb = "createOrUpdate"
           /\ calls[j].state = "ok"
           /\ calls[j].resourceGroup = calls[i].resourceGroup
           /\ calls[j].type = calls[i].type
           /\ calls[j].name = calls[i].name

NamePrefix == [vm |-> "vm", vnet |-> "network", ip |-> "ip", nic |-> "nic"]

\* C13 as stated: every delete call targets a resource a create call of the
\* run created, and from the first remote call on the four names are the
\* four prefixes followed by the one name suffix.
C13_AllNamesFromSuffix ==
  /\ DeletesTargetCreated
  /\ calls # <<>>
       => /\ nameSuffix # ""
          /\ \A t \in Types : names[t] = NamePrefix[t] \o nameSuffix

\* the names every variant works with: variant 2 names its VM "MySampleVM"
NamesOfRun ==
  [t \in Types |->
     IF variant = "variant2" /\ t = "vm" THEN "MySampleVM"
     ELSE NamePrefix[t] \o nameSuffix]

\* C13 (amended): every delete call targets a resource a create call of the
\* run created; before the first remote call the names are fixed, the
\* network, public-IP and network-interface names (and the VM name, except
\* in variant 2 where it is the literal "MySampleVM") being a prefix followed
\* by the one name suffix; every create, get and delete call uses these
\* names, and names and suffix never change once set.
C13_DeletesTargetCreated ==
  /\ [](/\ DeletesTargetCreated
        /\ calls # <<>>
             => /\ nameSuffix # ""
                /\ \A t \in Types : names[t] = NamesOfRun[t]
        /\ \A i \in 1..Len(calls) :
             calls[i].verb # "list" => calls[i].name = names[calls[i].type])
  /\ [][nameSuffix # "" => (nameSuffix' = nameSuffix /\ names' = names)]_vars

C13_Witness ==
  /\ variant = "variant2"
  /\ FailureFree
  /\ \E i \in 1..Len(calls) :
       /\ calls[i].verb = "delete"
       /\ calls[i].state = "ok"
       /\ calls[i].name = "MySampleVM"
  /\ names.nic = "nic" \o nameSuffix

\* the calls with a given verb that a driver step issued
AttemptsOf(k, verb) ==
  {i \in 1..Len(calls) : calls[i].step = k /\ calls[i].verb = verb}

\* C14: when every remote call (and the login) eventually completes, the run
\* eventually ends; and no driver step ever issues the same call twice, so a
\* failed call is never retried.
C14_TerminatesWithoutRetry ==
  /\ <>(status # "running")
  /\ [](\A k \in 1..Len(Steps(variant)) :
          /\ \A verb \in {"list", "createOrUpdate", "get", "delete"} :
               Cardinality(AttemptsOf(k, verb)) <= 1
          /\ \A i \in 1..Len(calls) :
               (calls[i].step = k /\ calls[i].state = "failed")
                 => \A j \in 1..Len(calls) : calls[j].step = k => j <= i)

C14_Witness ==
  /\ status = "completed"
  /\ caught
  /\ Len(calls) = 2
  /\ calls[1].state = "ok"
  /\ calls[2].state = "failed"
  /\ calls[2].verb = "createOrUpdate"

====
